---- MODULE Spec2Model ----
(***************************************************************************)
(* State-machine model of the CircleArt Perlin-noise sketch                *)
(* (src/sketch.js): the frame callback draw(), the pointer callback        *)
(* mouseMoved(), the lazily built registry of twelve CircleArt figures and *)
(* the eight drawing routines with their noiseWiggle calls.                *)
(*                                                                         *)
(* JavaScript numbers are IEEE-754 binary64.  They are modelled exactly:   *)
(* a number is a sign, a 53-bit significand and an exponent, and every     *)
(* arithmetic operation rounds to nearest, ties to even.  TLC's integers   *)
(* are 32 bits wide, so significands are kept as sequences of 15-bit       *)
(* limbs (least significant first).                                        *)
(***************************************************************************)
EXTENDS Integers, Sequences, FiniteSets

\* ------------------------------------------------------------------------
\* Natural numbers of arbitrary size: little-endian limbs, no leading zero
\* limb, zero is the empty sequence.  Intermediate values are passed as
\* parameters of helper operators.
\* ------------------------------------------------------------------------
\* a limb holds 15 bits: a product of two limbs plus a carry stays below 2^31
Base == 2^15

RECURSIVE BStrip(_)
BStrip(a) ==
  IF a = <<>> THEN <<>>
  ELSE IF a[Len(a)] = 0 THEN BStrip(SubSeq(a, 1, Len(a) - 1))
  ELSE a

RECURSIVE BFromNat(_)
BFromNat(n) == IF n = 0 THEN <<>> ELSE <<n % Base>> \o BFromNat(n \div Base)

BLimb(a, i) == IF i <= Len(a) THEN a[i] ELSE 0

\* a + b, from limb i on, with carry c
RECURSIVE BAddC(_, _, _, _)
BAddC(a, b, i, c) ==
  IF i > Len(a) /\ i > Len(b)
    THEN (IF c = 0 THEN <<>> ELSE <<c>>)
    ELSE <<(BLimb(a, i) + BLimb(b, i) + c) % Base>>
         \o BAddC(a, b, i + 1, (BLimb(a, i) + BLimb(b, i) + c) \div Base)

BAdd(a, b) == BAddC(a, b, 1, 0)

\* a - b for a >= b, from limb i on, with borrow c
RECURSIVE BSubC(_, _, _, _)
BSubC(a, b, i, c) ==
  IF i > Len(a) THEN <<>>
  ELSE IF BLimb(a, i) - BLimb(b, i) - c < 0
    THEN <<BLimb(a, i) - BLimb(b, i) - c + Base>> \o BSubC(a, b, i + 1, 1)
    ELSE <<BLimb(a, i) - BLimb(b, i) - c>> \o BSubC(a, b, i + 1, 0)

BSub(a, b) == BStrip(BSubC(a, b, 1, 0))

\* -1, 0, 1 as a < b, a = b, a > b
RECURSIVE BCmpAt(_, _, _)
BCmpAt(a, b, i) ==
  IF i = 0 THEN 0
  ELSE IF a[i] < b[i] THEN -1
  ELSE IF a[i] > b[i] THEN 1
  ELSE BCmpAt(a, b, i - 1)

BCmp(a, b) ==
  IF Len(a) < Len(b) THEN -1
  ELSE IF Len(a) > Len(b) THEN 1
  ELSE BCmpAt(a, b, Len(a))

\* a * d for 0 <= d <= Base, from limb i on, with carry c
RECURSIVE BMulSmallC(_, _, _, _)
BMulSmallC(a, d, i, c) ==
  IF i > Len(a)
    THEN (IF c = 0 THEN <<>> ELSE <<c>>)
    ELSE <<(a[i] * d + c) % Base>> \o BMulSmallC(a, d, i + 1, (a[i] * d + c) \div Base)

BMulSmall(a, d) == IF d = 0 \/ a = <<>> THEN <<>> ELSE BMulSmallC(a, d, 1, 0)

BZeros(q) == [i \in 1..q |-> 0]

RECURSIVE BMulAt(_, _, _)
BMulAt(a, b, j) ==
  IF j > Len(b) THEN <<>>
  ELSE BAdd(IF b[j] = 0 THEN <<>> ELSE BZeros(j - 1) \o BMulSmall(a, b[j]),
            BMulAt(a, b, j + 1))

BMul(a, b) == IF a = <<>> \/ b = <<>> THEN <<>> ELSE BMulAt(a, b, 1)

\* quotient and remainder of a by d, 0 < d < Base: limbs i, i-1, ..., 1 of a
\* with r carried in from above; the quotient's limbs are prepended to q
RECURSIVE BDivSmallAt(_, _, _, _, _)
BDivSmallAt(a, d, i, r, q) ==
  IF i = 0 THEN [q |-> BStrip(q), r |-> r]
  ELSE BDivSmallAt(a, d, i - 1, (r * Base + a[i]) % d, <<(r * Base + a[i]) \div d>> \o q)

BDivSmall(a, d) == BDivSmallAt(a, d, Len(a), 0, <<>>)

TopBits(x) == CHOOSE b \in 1..15 : 2^(b - 1) <= x /\ x < 2^b

BBitLen(a) == IF a = <<>> THEN 0 ELSE 15 * (Len(a) - 1) + TopBits(a[Len(a)])

\* a * 2^k
BShl(a, k) ==
  IF a = <<>> THEN <<>>
  ELSE BZeros(k \div 15) \o BMulSmall(a, 2^(k % 15))

\* floor(a / 2^k), and whether any of the k bits shifted out was set:
\* q limbs are dropped whole, then dv is the rest divided by 2^(k % 15)
BShrOf(dv, low) == [q |-> dv.q, sticky |-> low \/ dv.r # 0]

BShrLimbs(a, q, r) ==
  BShrOf(BDivSmall(IF q >= Len(a) THEN <<>> ELSE SubSeq(a, q + 1, Len(a)), 2^r),
         \E i \in 1..(IF q >= Len(a) THEN Len(a) ELSE q) : a[i] # 0)

BShr(a, k) == BShrLimbs(a, k \div 15, k % 15)

BIsOdd(a) == a # <<>> /\ a[1] % 2 = 1

BOne == <<1>>

\* ------------------------------------------------------------------------
\* IEEE-754 binary64 (the JavaScript Number).  A number is
\* [s, m, e] with value (-1)^s * m * 2^e; m is zero (then s = 0, e = 0: the
\* sign of zero is not kept, no comparison of the program tells -0 from 0)
\* or has exactly Precision bits.  Exponent range and subnormals are not
\* modelled: every number of the program lies between 2^-70 and 2^20.
\* ------------------------------------------------------------------------
\* 52 stored fraction bits and the implicit leading bit
Precision == 52 + 1

FZero == [s |-> 0, m |-> <<>>, e |-> 0]

IsZero(a) == a.m = <<>>

\* q * 2^e, or the next number up when up: a carry out of the top bit
\* leaves a power of two
FRoundUp(s, q, up, e) ==
  IF up /\ BBitLen(BAdd(q, BOne)) > Precision
    THEN [s |-> s, m |-> BShr(BAdd(q, BOne), 1).q, e |-> e + 1]
    ELSE [s |-> s, m |-> IF up THEN BAdd(q, BOne) ELSE q, e |-> e]

\* sh holds the significand with one bit more (the half bit) and whether
\* anything was cut off below it: up when above the half, or at the half
\* with an odd significand (ties to even)
FRoundCut(s, sh, e) ==
  FRoundUp(s, BShr(sh.q, 1).q,
           BIsOdd(sh.q) /\ (sh.sticky \/ BIsOdd(BShr(sh.q, 1).q)), e)

FRoundLen(s, M, e, n) ==
  IF n <= Precision
    THEN [s |-> s, m |-> BShl(M, Precision - n), e |-> e - (Precision - n)]
    ELSE FRoundCut(s, BShr(M, n - Precision - 1), e + n - Precision)

\* nearest number to (-1)^s * M * 2^e, ties to even
FRound(s, M, e) == IF M = <<>> THEN FZero ELSE FRoundLen(s, M, e, BBitLen(M))

\* an integer below 2^31 in magnitude is a number exactly
FromNat(M) == [s |-> 0, m |-> BShl(M, Precision - BBitLen(M)), e |-> BBitLen(M) - Precision]

FNeg(a) == IF IsZero(a) THEN a ELSE [a EXCEPT !.s = 1 - a.s]

FromInt(n) ==
  IF n = 0 THEN FZero ELSE IF n < 0 THEN FNeg(FromNat(BFromNat(-n))) ELSE FromNat(BFromNat(n))

FAbs(a) == [a EXCEPT !.s = 0]

\* -1, 0, 1 as |a| < |b|, |a| = |b|, |a| > |b|
FCmpMag(a, b) ==
  IF IsZero(a) THEN (IF IsZero(b) THEN 0 ELSE -1)
  ELSE IF IsZero(b) THEN 1
  ELSE IF a.e < b.e THEN -1
  ELSE IF a.e > b.e THEN 1
  ELSE BCmp(a.m, b.m)

FCmp(a, b) ==
  IF a.s = 0 /\ b.s = 0 THEN FCmpMag(a, b)
  ELSE IF a.s = 1 /\ b.s = 1 THEN FCmpMag(b, a)
  ELSE IF a.s = 1 THEN -1
  ELSE 1

FLt(a, b) == FCmp(a, b) < 0
FLe(a, b) == FCmp(a, b) <= 0

\* the sum of Ma * 2^e with sign sa and Mb * 2^e with sign sb
FAddAligned(sa, Ma, sb, Mb, e) ==
  IF sa = sb THEN FRound(sa, BAdd(Ma, Mb), e)
  ELSE IF BCmp(Ma, Mb) = 0 THEN FZero
  ELSE IF BCmp(Ma, Mb) > 0 THEN FRound(sa, BSub(Ma, Mb), e)
  ELSE FRound(sb, BSub(Mb, Ma), e)

\* a + b: both significands are brought to the smaller exponent
FAddAt(a, b, e) == FAddAligned(a.s, BShl(a.m, a.e - e), b.s, BShl(b.m, b.e - e), e)

FAdd(a, b) ==
  IF IsZero(a) THEN b
  ELSE IF IsZero(b) THEN a
  ELSE FAddAt(a, b, IF a.e < b.e THEN a.e ELSE b.e)

FSub(a, b) == FAdd(a, FNeg(b))

FMul(a, b) ==
  IF IsZero(a) \/ IsZero(b) THEN FZero
  ELSE FRound((a.s + b.s) % 2, BMul(a.m, b.m), a.e + b.e)

\* the odd part d of a nonzero significand, and z with m = d * 2^z
RECURSIVE OddPart(_, _)
OddPart(m, z) ==
  IF m[1] = 0 THEN OddPart(Tail(m), z + 15)
  ELSE [d |-> BShr(m, CHOOSE j \in 0..14 : m[1] % 2^(j + 1) = 2^j).q,
        z |-> z + (CHOOSE j \in 0..14 : m[1] % 2^(j + 1) = 2^j)]

\* twice the quotient, with the lowest bit set when the division left a
\* remainder (the sticky bit)
FDivSticky(dv) == BAdd(BShl(dv.q, 1), IF dv.r # 0 THEN BOne ELSE <<>>)

\* a / (d * 2^z), d odd and below 2^15: a power of two divides exactly;
\* otherwise the quotient is taken to 20 extra bits and rounded once
FDivOdd(s, a, d, z) ==
  IF d = BOne THEN [s |-> s, m |-> a.m, e |-> a.e - z]
  ELSE FRound(s, FDivSticky(BDivSmall(BShl(a.m, 20), d[1])), a.e - z - 21)

FDivBy(a, b, o) == FDivOdd((a.s + b.s) % 2, a, o.d, b.e + o.z)

\* a / b, for b nonzero whose significand has an odd part below 2^15 (the
\* divisors of the program are 800 and 1; the decimal literals divide by
\* powers of ten)
FDiv(a, b) == IF IsZero(a) THEN FZero ELSE FDivBy(a, b, OddPart(b.m, 0))

\* the number a decimal literal num/den denotes (literals are rounded
\* correctly, as a correctly rounded division is)
Dec(num, den) == FDiv(FromInt(num), FromInt(den))

FMin(a, b) == IF FLt(b, a) THEN b ELSE a
FMax(a, b) == IF FLt(a, b) THEN b ELSE a

\* ------------------------------------------------------------------------
\* p5.js helpers the sketch calls
\* ------------------------------------------------------------------------
\* a mapping that forgets the start of the target range
mapFromZero(n, start1, stop1, start2, stop2) ==
  FMul(FDiv(FSub(n, start1), FSub(stop1, start1)), FSub(stop2, start2))

\* map(n, start1, stop1, start2, stop2), without the withinBounds flag:
\* (n - start1) / (stop1 - start1) * (stop2 - start2) + start2
map(n, start1, stop1, start2, stop2) ==
  FAdd(FMul(FDiv(FSub(n, start1), FSub(stop1, start1)), FSub(stop2, start2)), start2)

\* no clamping at all
unconstrained(n, low, high) == n

\* constrain(n, low, high) = max(min(n, high), low)
constrain(n, low, high) == FMax(FMin(n, high), low)

\* createCanvas(800, 800): width and height
CanvasSize == 800
width == FromInt(CanvasSize)
height == FromInt(CanvasSize)

\* p5's seeded generator: randomSeed(s) restarts the stream, every random()
\* call takes the next value.  The stream is a fixed function of the seed
\* and the position; only the position and the range of the values matter
\* here, so the k-th value of stream s is a fixed number in [0, 1000).
RandomValue(seed, k) == ((seed % 1000) * 7 + k * 613) % 1000

\* ------------------------------------------------------------------------
\* Bounds of the model and the inputs it enumerates
\* ------------------------------------------------------------------------
\* frames rendered in a run of Spec
MaxFrames == 2

\* frames rendered in a run of SpecClock, where no pointer event occurs
ClockFrames == 100

\* pointer samples (mouseX, mouseY): the corners and the centre of the
\* surface, a point inside it and points outside it on every side
PointerSamples ==
  { <<0, 0>>, <<400, 400>>, <<800, 800>>, <<123, 457>>, <<-40, 900>>, <<1000, -5>> }

\* The noise field of a session.  noise() is deterministic once its table
\* is built, and returns values in [0,1]; the table itself is random.  A
\* session has one of these fields: constantly 0, constantly 1, or varying.
NoiseFields == {"zero", "one", "mixed"}

MixedSamples == << Dec(3, 10), Dec(1, 2), Dec(9, 10), FromInt(1), Dec(7, 100), FZero >>

Hash(a) == IF IsZero(a) THEN 0 ELSE a.m[1] + a.m[Len(a.m)] + a.e + 2000

\* noise(x, y): the sample of field f at (x, y); noise(x) is noise(x, 0)
noise(f, x, y) ==
  IF f = "zero" THEN FZero
  ELSE IF f = "one" THEN FromInt(1)
  ELSE MixedSamples[((Hash(x) + 3 * Hash(y)) % Len(MixedSamples)) + 1]
\* ------------------------------------------------------------------------
\* Program state
\* ------------------------------------------------------------------------
VARIABLES
  t,              \* let t = 0: the animation clock
  noiseStrength,  \* let noiseStrength = 1.0
  timeScale,      \* let timeScale = 1.0
  NOISE,          \* const NOISE = {...}: the binding is constant, the object is not frozen
  circles,        \* let circles = []: the registry of CircleArt instances
  mouseX, mouseY, \* p5's pointer coordinates, set by the host before mouseMoved runs
  rng,            \* p5's seeded random stream: its seed and the values taken since
  field,          \* the session's noise field
  stack,          \* p5's push()/pop() stack of saved transforms
  cur,            \* the current transform: the operations applied to it, in order
  pc,             \* position of the frame callback: idle between frames
  mpc,            \* position of the pointer callback: idle between events
  idx,            \* drawAllCircles' loop position (1-based index into circles)
  loc,            \* CircleArt.display's locals for the figure being displayed
  calls,          \* the noiseWiggle calls (seed, amp, time) of the drawing routine that ran last
  wiggle,         \* the last noiseWiggle call made on its own: its arguments and result
  frameCount,     \* frames started so far (p5's frameCount)
  ctorCalls,      \* how many times the CircleArt constructor has run
  moved,          \* whether a pointer event has been handled yet
  seen,           \* the (noiseStrength, timeScale) pairs read so far in this frame
  entry,          \* transform stack depth and current transform when display was entered
  exited          \* how the last display call ended: "none" while none has, "returned", "threw"

vars == << t, noiseStrength, timeScale, NOISE, circles, mouseX, mouseY, rng,
           field, stack, cur, pc, mpc, idx, loc, calls, wiggle, frameCount,
           ctorCalls, moved, seen, entry, exited >>

Zero == FromInt(0)
One == FromInt(1)
Two == FromInt(2)
Half == Dec(5, 10)
ThreeTenths == Dec(3, 10)

\* const NOISE = { animate: true, speed: 0.02, wiggle: 50, sMin: 0.9, sMax: 1.15, rotMax: 300 }
NoiseConfig ==
  [ animate |-> TRUE,
    speed   |-> Dec(2, 100),
    wiggle  |-> FromInt(50),
    sMin    |-> Dec(9, 10),
    sMax    |-> Dec(115, 100),
    rotMax  |-> FromInt(300) ]

\* ------------------------------------------------------------------------
\* noiseWiggle and the drawing routines
\* ------------------------------------------------------------------------
\* the strength applied twice to the amplitude
noiseWiggleSquared(seed, amp, tGlobal) ==
  map(noise(field, FromInt(seed), tGlobal), Zero, One,
      FMul(FMul(FNeg(amp), noiseStrength), noiseStrength),
      FMul(FMul(amp, noiseStrength), noiseStrength))

\* return map(noise(seed, tGlobal), 0, 1, -amp * noiseStrength, amp * noiseStrength)
noiseWiggle(seed, amp, tGlobal) ==
  map(noise(field, FromInt(seed), tGlobal), Zero, One,
      FMul(FNeg(amp), noiseStrength), FMul(amp, noiseStrength))

\* A drawing routine is the sequence of its calls that touch program state:
\* noiseWiggle(seed, amp, tt), push(), pop(), rotate(), randomSeed(s) and
\* random().  Fills, strokes and shapes only paint.
Wiggle(seed, amp) == [op |-> "wiggle", seed |-> seed, amp |-> amp]
Call(name) == [op |-> name, seed |-> 0, amp |-> FZero]
SeedCall(s) == [op |-> "randomSeed", seed |-> s, amp |-> FZero]

\* the calls of a loop: body[i] for i = 0, 1, ..., in order
RECURSIVE LoopOps(_, _)
LoopOps(body, i) ==
  IF i \notin DOMAIN body THEN <<>> ELSE body[i] \o LoopOps(body, i + 1)

\* R = 100; 20 dots: noiseWiggle(100 + i, 20, tt), noiseWiggle(200 + i, R * 0.10, tt)
drawCircle1 ==
  LoopOps([i \in 0..19 |-> << Wiggle(100 + i, FromInt(20)),
                        Wiggle(200 + i, FMul(FromInt(100), Dec(10, 100))) >>], 0)

\* 24 spokes: two offsets, then push(); rotate(angle); rect(...); pop()
drawCircle2 ==
  LoopOps([i \in 0..23 |-> << Wiggle(300 + i, FromInt(25)), Wiggle(400 + i, FromInt(20)),
                        Call("push"), Call("rotate"), Call("pop") >>], 0)

\* 8 petals
drawCircle3 ==
  LoopOps([i \in 0..7 |-> << Wiggle(500 + i, FromInt(20)), Wiggle(600 + i, FromInt(30)),
                        Call("push"), Call("rotate"), Call("pop") >>], 0)

\* 12 dots
drawCircle4 == LoopOps([i \in 0..11 |-> << Wiggle(700 + i, FromInt(23)) >>], 0)

\* push(); 6 petals, each rotating the frame further; pop()
drawCircle5 ==
  << Call("push") >>
  \o LoopOps([i \in 0..5 |-> << Wiggle(800 + i, FromInt(35)), Call("rotate"),
                           Wiggle(900 + i, FromInt(20)) >>], 0)
  \o << Call("pop") >>

\* 20 dots; randomSeed(1234); 6 sparks of 3 random() calls, 6 dots of 2
drawCircle6 ==
  LoopOps([i \in 0..19 |-> << Wiggle(1000 + i, FromInt(9)) >>], 0)
  \o << SeedCall(1234) >>
  \o LoopOps([i \in 0..5 |-> << Call("random"), Call("random"), Call("random") >>], 0)
  \o LoopOps([i \in 0..5 |-> << Call("random"), Call("random") >>], 0)

\* 24 petals
drawCircle7 ==
  LoopOps([i \in 0..23 |-> << Wiggle(1100 + i, FromInt(14)), Wiggle(1200 + i, FromInt(25)),
                        Call("push"), Call("rotate"), Call("pop") >>], 0)

\* 16 dots
drawCircle8 ==
  LoopOps([i \in 0..15 |-> << Wiggle(1300 + i, FromInt(25)),
                        Call("push"), Call("rotate"), Call("pop") >>], 0)

Routine(name) ==
  CASE name = "drawCircle1" -> drawCircle1
    [] name = "drawCircle2" -> drawCircle2
    [] name = "drawCircle3" -> drawCircle3
    [] name = "drawCircle4" -> drawCircle4
    [] name = "drawCircle5" -> drawCircle5
    [] name = "drawCircle6" -> drawCircle6
    [] name = "drawCircle7" -> drawCircle7
    [] name = "drawCircle8" -> drawCircle8

\* one call of a routine, on the transform stack, the current transform,
\* the random stream and the record of noiseWiggle calls.  What noiseWiggle
\* returns goes into the coordinates of a shape and changes no state.
RunCall(o, tt, st) ==
  CASE o.op = "wiggle" ->
         [st EXCEPT !.calls = Append(@, [seed |-> o.seed, amp |-> o.amp, time |-> tt])]
    [] o.op = "push"   -> [st EXCEPT !.stack = Append(@, st.cur)]
    [] o.op = "pop"    -> [st EXCEPT !.cur = st.stack[Len(st.stack)],
                                     !.stack = SubSeq(@, 1, Len(@) - 1)]
    [] o.op = "rotate" -> [st EXCEPT !.cur = Append(@, "rotate")]
    [] o.op = "randomSeed" -> [st EXCEPT !.rng = [seed |-> o.seed, n |-> 0]]
    [] o.op = "random" -> [st EXCEPT !.rng.n = @ + 1]

\* the calls ops[lo], ..., ops[hi] of a routine in order, from st: the first
\* half of the range is run to its end (the test on it makes that so) and
\* the second half runs from where the first left off
RECURSIVE RunRange(_, _, _, _, _)
RunRange(ops, lo, hi, tt, st) ==
  IF lo > hi THEN st
  ELSE IF lo = hi THEN RunCall(ops[lo], tt, st)
  ELSE LET first == RunRange(ops, lo, (lo + hi) \div 2, tt, st)
       IN  IF Len(first.calls) >= 0
             THEN RunRange(ops, (lo + hi) \div 2 + 1, hi, tt, first)
             ELSE first

RunRoutine(ops, tt, st) == RunRange(ops, 1, Len(ops), tt, st)

\* ------------------------------------------------------------------------
\* CircleArt and the registry
\* ------------------------------------------------------------------------
\* new CircleArt(x, y, scale, drawFn), when k values of the random stream
\* have been taken: the four seeds are the next four values, random(1000)
CircleArt(x, y, scale, drawFn, k) ==
  [ x |-> x, y |-> y, scale |-> scale, drawFn |-> drawFn,
    nx |-> FromInt(RandomValue(rng.seed, k)),
    ny |-> FromInt(RandomValue(rng.seed, k + 1)),
    ns |-> FromInt(RandomValue(rng.seed, k + 2)),
    nr |-> FromInt(RandomValue(rng.seed, k + 3)) ]

\* the twelve constructor calls of drawAllCircles, in order
Layout ==
  << <<FromInt(10),  FromInt(10),  FromInt(1),  "drawCircle6">>,
     <<FromInt(220), FromInt(180), Dec(9, 10),  "drawCircle4">>,
     <<FromInt(400), FromInt(-30), Dec(4, 10),  "drawCircle7">>,
     <<FromInt(530), FromInt(180), Dec(6, 10),  "drawCircle8">>,
     <<FromInt(785), FromInt(80),  Dec(8, 10),  "drawCircle4">>,
     <<FromInt(-45), FromInt(270), Dec(9, 10),  "drawCircle3">>,
     <<FromInt(154), FromInt(460), Dec(14, 10), "drawCircle1">>,
     <<FromInt(434), FromInt(460), Dec(14, 10), "drawCircle2">>,
     <<FromInt(760), FromInt(410), Dec(12, 10), "drawCircle3">>,
     <<FromInt(20),  FromInt(700), FromInt(1),  "drawCircle5">>,
     <<FromInt(295), FromInt(730), Dec(11, 10), "drawCircle6">>,
     <<FromInt(610), FromInt(730), Dec(7, 10),  "drawCircle7">> >>

NewRegistry ==
  [ i \in 1..Len(Layout) |->
      CircleArt(Layout[i][1], Layout[i][2], Layout[i][3], Layout[i][4],
                rng.n + 4 * (i - 1)) ]

\* the registry taken for empty on every call
RegistryAlwaysEmpty == TRUE

\* if (circles.length === 0)
RegistryEmpty == Len(circles) = 0

\* the locals of display(tt) for figure c
DisplayLocals(c, tt) ==
  LET px == noise(field, FAdd(c.nx, tt), Zero)
      py == noise(field, FAdd(c.ny, tt), Zero)
      ps == noise(field, FAdd(c.ns, tt), Zero)
      pr == noise(field, FAdd(c.nr, tt), Zero)
      dx == map(px, Zero, One, FMul(FNeg(NOISE.wiggle), noiseStrength),
                               FMul(NOISE.wiggle, noiseStrength))
      dy == map(py, Zero, One, FMul(FNeg(NOISE.wiggle), noiseStrength),
                               FMul(NOISE.wiggle, noiseStrength))
      sFactor == map(ps, Zero, One, NOISE.sMin, FMul(NOISE.sMax, noiseStrength))
      ang == map(pr, Zero, One, FMul(FNeg(NOISE.rotMax), noiseStrength),
                                FMul(NOISE.rotMax, noiseStrength))
  IN  [ px |-> px, py |-> py, ps |-> ps, pr |-> pr, dx |-> dx, dy |-> dy,
        sFactor |-> sFactor, sc |-> FMul(c.scale, sFactor), ang |-> ang ]

NoLocals == [ px |-> FZero, py |-> FZero, ps |-> FZero, pr |-> FZero, dx |-> FZero,
              dy |-> FZero, sFactor |-> FZero, sc |-> FZero, ang |-> FZero ]

\* translate(this.x + dx, this.y + dy); rotate(ang); scale(sc)
DisplayTransform(c, l) ==
  << [op |-> "translate", x |-> FAdd(c.x, l.dx), y |-> FAdd(c.y, l.dy)],
     [op |-> "rotate", a |-> l.ang],
     [op |-> "scale", s |-> l.sc] >>

\* ------------------------------------------------------------------------
\* Scheduling.  draw and mouseMoved are synchronous functions called by the
\* host's single event loop: a callback starts only when the other is not
\* running, and runs to its end.
\* ------------------------------------------------------------------------
Preemptible(position) == TRUE

\* a callback may start when the other one is at rest: between two of its
\* invocations, or after it ended with an uncaught exception
Quiescent(position) == position \in {"idle", "aborted"}

\* a clock that does not move
ClockHeld(now) == now

\* a clock stepped by the time scale alone
ClockUnscaled(now) == FAdd(now, timeScale)

\* t += NOISE.speed * timeScale, when NOISE.animate
NextClock(now) ==
  IF NOISE.animate THEN FAdd(now, FMul(NOISE.speed, timeScale)) ELSE now

\* a pointer callback that also resets the clock
MouseFrameResetsClock ==
  /\ t' = Zero
  /\ UNCHANGED << NOISE, circles, rng, field, stack, cur, pc, idx, loc, calls,
                  wiggle, frameCount, ctorCalls, seen, entry, exited >>

\* what the pointer callback does not assign
MouseFrame ==
  UNCHANGED << t, NOISE, circles, rng, field, stack, cur, pc, idx, loc, calls,
               wiggle, frameCount, ctorCalls, seen, entry, exited >>

\* what the frame callback does not assign
DrawFrame ==
  UNCHANGED << noiseStrength, timeScale, NOISE, mouseX, mouseY, field, mpc, moved, wiggle >>

Read == seen \cup { << noiseStrength, timeScale >> }

\* dots of drawBackgroundGrid's four quadrants: three random() calls each
DotCounts == << 25, 25, 15, 15 >>
BackgroundRandomCalls == 3 * (DotCounts[1] + DotCounts[2] + DotCounts[3] + DotCounts[4])

NoWiggle ==
  [ made |-> FALSE, seed |-> 0, amp |-> FZero, time |-> FZero, strength |-> FZero,
    sample |-> FZero, result |-> FZero ]

Init ==
  /\ t = Zero
  /\ noiseStrength = One
  /\ timeScale = One
  /\ NOISE = NoiseConfig
  /\ circles = << >>
  /\ mouseX = 0
  /\ mouseY = 0
  /\ rng = [seed |-> 0, n |-> 0]
  /\ field \in NoiseFields
  /\ stack = << >>
  /\ cur = << >>
  /\ pc = "idle"
  /\ mpc = "idle"
  /\ idx = 0
  /\ loc = NoLocals
  /\ calls = << >>
  /\ wiggle = NoWiggle
  /\ frameCount = 0
  /\ ctorCalls = 0
  /\ moved = FALSE
  /\ seen = {}
  /\ entry = [depth |-> 0, cur |-> << >>]
  /\ exited = "none"

\* draw(), lines 67-68: clear(); drawBackgroundGrid(), which reseeds the
\* random stream (randomSeed(9103)) and scatters the dots
DrawBackground(frames) ==
  /\ pc = "idle"
  /\ Quiescent(mpc)
  /\ frameCount < frames
  /\ frameCount' = frameCount + 1
  /\ rng' = [seed |-> 9103, n |-> BackgroundRandomCalls]
  /\ seen' = {}
  /\ pc' = "advance"
  /\ UNCHANGED << t, circles, stack, cur, idx, loc, calls, ctorCalls, entry, exited >>
  /\ DrawFrame

\* draw(), lines 70-72
AdvanceClock ==
  /\ pc = "advance"
  /\ Quiescent(mpc)
  /\ t' = NextClock(t)
  /\ seen' = (IF NOISE.animate THEN Read ELSE seen)
  /\ pc' = "circles"
  /\ UNCHANGED << circles, rng, stack, cur, idx, loc, calls, frameCount, ctorCalls,
                  entry, exited >>
  /\ DrawFrame

\* a loop over the figures that starts at the second one
DrawAllCirclesFromSecond ==
  /\ pc = "circles"
  /\ Quiescent(mpc)
  /\ IF RegistryEmpty
       THEN /\ circles' = NewRegistry
            /\ rng' = [rng EXCEPT !.n = @ + 4 * Len(Layout)]
            /\ ctorCalls' = ctorCalls + Len(Layout)
       ELSE UNCHANGED << circles, rng, ctorCalls >>
  /\ idx' = 2
  /\ pc' = "display"
  /\ UNCHANGED << t, stack, cur, loc, calls, frameCount, seen, entry, exited >>
  /\ DrawFrame

\* drawAllCircles(tt), lines 211-228: build the registry when it is empty
DrawAllCircles ==
  /\ pc = "circles"
  /\ Quiescent(mpc)
  /\ IF RegistryEmpty
       THEN /\ circles' = NewRegistry
            /\ rng' = [rng EXCEPT !.n = @ + 4 * Len(Layout)]
            /\ ctorCalls' = ctorCalls + Len(Layout)
       ELSE UNCHANGED << circles, rng, ctorCalls >>
  /\ idx' = 1
  /\ pc' = "display"
  /\ UNCHANGED << t, stack, cur, loc, calls, frameCount, seen, entry, exited >>
  /\ DrawFrame

\* c.display(tt), lines 115-150: the samples and offsets, then push();
\* translate(); rotate(); scale()
Display ==
  /\ pc = "display"
  /\ Quiescent(mpc)
  /\ LET c == circles[idx]
         l == DisplayLocals(c, t)
     IN  /\ loc' = l
         /\ entry' = [depth |-> Len(stack), cur |-> cur]
         /\ stack' = Append(stack, cur)
         /\ cur' = cur \o DisplayTransform(c, l)
  /\ seen' = Read
  /\ exited' = "none"
  /\ pc' = "drawFn"
  /\ UNCHANGED << t, circles, rng, idx, calls, frameCount, ctorCalls >>
  /\ DrawFrame

\* lines 151-152: this.drawFn(tt) returns; pop(); then the loop of
\* drawAllCircles goes on to the next figure, or draw() returns
DrawFn ==
  /\ pc = "drawFn"
  /\ Quiescent(mpc)
  /\ LET ran == RunRoutine(Routine(circles[idx].drawFn), t,
                           [stack |-> stack, cur |-> cur, rng |-> rng, calls |-> << >>])
     IN  /\ calls' = ran.calls
         /\ rng' = ran.rng
         /\ cur' = ran.stack[Len(ran.stack)]
         /\ stack' = SubSeq(ran.stack, 1, Len(ran.stack) - 1)
  /\ seen' = Read
  /\ exited' = "returned"
  /\ IF idx < Len(circles)
       THEN idx' = idx + 1 /\ pc' = "display"
       ELSE idx' = 0 /\ pc' = "idle"
  /\ UNCHANGED << t, circles, loc, frameCount, ctorCalls, entry >>
  /\ DrawFrame

\* line 151 when the drawing routine throws: the exception leaves display,
\* drawAllCircles and draw; pop() on line 152 is not reached, and the host's
\* frame loop ends with the uncaught exception
DrawFnThrows ==
  /\ pc = "drawFn"
  /\ Quiescent(mpc)
  /\ exited' = "threw"
  /\ pc' = "aborted"
  /\ UNCHANGED << t, circles, rng, stack, cur, idx, loc, calls, frameCount,
                  ctorCalls, seen, entry >>
  /\ DrawFrame

\* a pointer-move event at (x, y): the host sets mouseX and mouseY and calls
\* mouseMoved(); line 84
MouseMoved(x, y) ==
  /\ mpc = "idle"
  /\ Quiescent(pc)
  /\ mouseX' = x
  /\ mouseY' = y
  /\ noiseStrength' = map(FromInt(x), Zero, width, Half, Two)
  /\ mpc' = "line85"
  /\ UNCHANGED << timeScale, moved >>
  /\ MouseFrame

\* line 85
ConstrainStrength ==
  /\ mpc = "line85"
  /\ Quiescent(pc)
  /\ noiseStrength' = constrain(noiseStrength, Half, Two)
  /\ mpc' = "line88"
  /\ UNCHANGED << timeScale, mouseX, mouseY, moved >>
  /\ MouseFrame

\* line 88
MapTimeScale ==
  /\ mpc = "line88"
  /\ Quiescent(pc)
  /\ timeScale' = map(FromInt(mouseY), Zero, height, ThreeTenths, Two)
  /\ mpc' = "line89"
  /\ UNCHANGED << noiseStrength, mouseX, mouseY, moved >>
  /\ MouseFrame

\* line 89, and mouseMoved returns
ConstrainTimeScale ==
  /\ mpc = "line89"
  /\ Quiescent(pc)
  /\ timeScale' = constrain(timeScale, ThreeTenths, Two)
  /\ mpc' = "idle"
  /\ moved' = TRUE
  /\ UNCHANGED << noiseStrength, mouseX, mouseY >>
  /\ MouseFrame

Pointer ==
  \/ \E p \in PointerSamples : MouseMoved(p[1], p[2])
  \/ ConstrainStrength
  \/ MapTimeScale
  \/ ConstrainTimeScale

Frame(frames) ==
  \/ DrawBackground(frames)
  \/ AdvanceClock
  \/ DrawAllCircles
  \/ Display
  \/ DrawFn

Next == Frame(MaxFrames) \/ Pointer

Spec == Init /\ [][Next]_vars

\* ------------------------------------------------------------------------
\* Frames only: the frame callback runs ClockFrames times and no pointer
\* event occurs, so timeScale keeps its initial value 1.0
\* ------------------------------------------------------------------------
Frames == Frame(ClockFrames)

SpecClock == Init /\ [][Frames]_vars

\* ------------------------------------------------------------------------
\* A drawing routine that fails: CircleArt takes its drawFn as a parameter
\* and calls it between push() and pop()
\* ------------------------------------------------------------------------
NextInject == Next \/ DrawFnThrows

SpecInject == Init /\ [][NextInject]_vars

\* ------------------------------------------------------------------------
\* noiseWiggle on its own: called with arguments from small sets, under
\* every noiseStrength the pointer callback can leave behind
\* ------------------------------------------------------------------------
WiggleSeeds == {42, 1323}
WiggleAmps == {FromInt(0), FromInt(20), FromInt(35)}
WiggleTimes == {Zero, Dec(2, 100)}

WiggleCall(seed, amp, time) ==
  /\ mpc = "idle"
  /\ pc = "idle"
  /\ wiggle' = [ made |-> TRUE, seed |-> seed, amp |-> amp, time |-> time,
                 strength |-> noiseStrength,
                 sample |-> noise(field, FromInt(seed), time),
                 result |-> noiseWiggle(seed, amp, time) ]
  /\ UNCHANGED << t, noiseStrength, timeScale, NOISE, circles, mouseX, mouseY, rng,
                  field, stack, cur, pc, mpc, idx, loc, calls, frameCount,
                  ctorCalls, moved, seen, entry, exited >>

NextWiggle ==
  \/ Pointer
  \/ \E seed \in WiggleSeeds, amp \in WiggleAmps, time \in WiggleTimes :
       WiggleCall(seed, amp, time)

SpecWiggle == Init /\ [][NextWiggle]_vars

\* ------------------------------------------------------------------------
\* Comparison of a number with an exact fraction
\* ------------------------------------------------------------------------
BDist(a, b) == IF BCmp(a, b) >= 0 THEN BSub(a, b) ELSE BSub(b, a)

\* |v - p/q| <= c * 2^-k, for v >= 0 with a significand scaled by 2^v.e,
\* v.e <= 0, and 0 < q < 2^15: both sides are multiplied by q * 2^(k - v.e)
Within(v, p, q, c, k) ==
  /\ v.s = 0
  /\ v.e <= 0
  /\ BCmp(BDist(BShl(BMulSmall(v.m, q), k), BShl(BFromNat(p), k - v.e)),
          BShl(BFromNat(c * q), -v.e)) <= 0

OnSurface(x) == 0 <= x /\ x <= CanvasSize

\* ------------------------------------------------------------------------
\* Properties
\* ------------------------------------------------------------------------

\* C1: whenever no pointer callback is in the middle of its run (initially
\* and after any sequence of frames and pointer events, the pointer inside
\* or outside the surface), 0.5 <= noiseStrength <= 2.0 and
\* 0.3 <= timeScale <= 2.0.
ParametersInRange ==
  mpc = "idle" =>
    /\ FLe(Half, noiseStrength) /\ FLe(noiseStrength, Two)
    /\ FLe(ThreeTenths, timeScale) /\ FLe(timeScale, Two)

\* a pointer event beyond the surface on both axes has been handled, and
\* both parameters sit on a limit
ClampedOutside ==
  /\ mpc = "idle" /\ moved
  /\ mouseX = 1000 /\ mouseY = -5
  /\ noiseStrength = Two /\ timeScale = ThreeTenths

\* C2: after mouseMoved with the pointer at (x, y) on the surface,
\* noiseStrength is 0.5 + 1.5*x/800 = (800 + 3x)/1600 and timeScale is
\* 0.3 + 1.7*y/800 = (2400 + 17y)/8000, to within 2^-50 (the rounding of three
\* operations on numbers of this size), whatever they were before; at 0, 400
\* and 800 they are the numbers 0.5, 1.25, 2.0 and 0.3, 1.15, 2.0 themselves.
PointerMapping ==
  (mpc = "idle" /\ moved) =>
    /\ OnSurface(mouseX) => Within(noiseStrength, 800 + 3 * mouseX, 1600, 1, 50)
    /\ OnSurface(mouseY) => Within(timeScale, 2400 + 17 * mouseY, 8000, 1, 50)
    /\ mouseX = 0 => noiseStrength = Dec(5, 10)
    /\ mouseX = 400 => noiseStrength = Dec(125, 100)
    /\ mouseX = 800 => noiseStrength = FromInt(2)
    /\ mouseY = 0 => timeScale = Dec(3, 10)
    /\ mouseY = 400 => timeScale = Dec(115, 100)
    /\ mouseY = 800 => timeScale = FromInt(2)

\* the pointer is at the centre after an event that found other values
CentreAfterFrame ==
  /\ mpc = "idle" /\ moved /\ frameCount = 1
  /\ mouseX = 400 /\ mouseY = 400
  /\ noiseStrength = Dec(125, 100) /\ timeScale = Dec(115, 100)

\* C3: the clock is 0 before the first frame; no step decreases it; only
\* the advance of a frame changes it, and that advance makes it
\* t + NOISE.speed * timeScale (the sum and the product of the program's
\* numbers), with a positive step and a larger clock as the result; with
\* NOISE.animate false the advance leaves it as it is.
ClockAdvances ==
  [][ /\ (frameCount = 0 => t = Zero)
      /\ ~FLt(t', t)
      /\ (pc = "advance" /\ pc' = "circles") =>
           IF NOISE.animate
             THEN /\ t' = FAdd(t, FMul(NOISE.speed, timeScale))
                  /\ FLt(Zero, FMul(NOISE.speed, timeScale))
                  /\ FLt(t, t')
             ELSE t' = t
      /\ ~(pc = "advance" /\ pc' = "circles") => t' = t
    ]_vars

\* the second frame has advanced the clock at twice the base rate
ClockAdvancedTwice ==
  /\ pc = "circles" /\ frameCount = 2
  /\ timeScale = Two
  /\ FLt(Dec(4, 100), t)

\* 2 + 3 * 2^-51, written 2.0000000000000013
TwoAndThreeUlps == [s |-> 0, m |-> BAdd(BShl(BOne, 52), BFromNat(3)), e |-> -51]

\* C4, as the program has it: after N frames at timeScale 1.0 the clock is
\* the sum of N steps of 0.02, each addition rounded: within N * 2^-55 of
\* N * 0.02 = N/50, equal to the product N * 0.02 up to five frames, and
\* after 100 frames 2.0000000000000013, not 2.0.
ClockSumRounded ==
  pc # "advance" =>
    /\ Within(t, frameCount, 50, frameCount, 55)
    /\ frameCount <= 5 => t = FMul(FromInt(frameCount), NOISE.speed)
    /\ frameCount = 100 => t = TwoAndThreeUlps

\* the hundredth frame is over
HundredFrames ==
  /\ pc = "idle" /\ frameCount = 100
  /\ timeScale = One
  /\ t = TwoAndThreeUlps

\* C4, as stated: after N frames at timeScale 1.0 the clock equals
\* N * 0.02, and after 100 frames exactly 2.0.
ClockExact ==
  pc # "advance" =>
    /\ t = FMul(FromInt(frameCount), NOISE.speed)
    /\ frameCount = 100 => t = Two

\* C5: a noiseWiggle call returns a value between -amp * noiseStrength
\* and amp * noiseStrength, so of magnitude at most amp * 2.0; with
\* noiseStrength 0.5 and amp 20 the value is between -10 and 10.
WiggleBounded ==
  wiggle.made =>
    /\ FLe(FNeg(FMul(wiggle.amp, wiggle.strength)), wiggle.result)
    /\ FLe(wiggle.result, FMul(wiggle.amp, wiggle.strength))
    /\ FLe(FAbs(wiggle.result), FMul(wiggle.amp, Two))
    /\ (wiggle.strength = Half /\ wiggle.amp = FromInt(20)) =>
         /\ FLe(FromInt(-10), wiggle.result)
         /\ FLe(wiggle.result, FromInt(10))

\* a call at noiseStrength 0.5 and amp 20 whose noise sample is 1
WiggleAtEdge ==
  /\ wiggle.made
  /\ wiggle.strength = Half /\ wiggle.amp = FromInt(20)
  /\ wiggle.sample = One
  /\ wiggle.result = FromInt(10)

\* the registry as the first drawAllCircles builds it: after randomSeed(9103)
\* and the background's random() calls, four values per figure
FirstRegistry ==
  [ i \in 1..Len(Layout) |->
      [ x |-> Layout[i][1], y |-> Layout[i][2], scale |-> Layout[i][3],
        drawFn |-> Layout[i][4],
        nx |-> FromInt(RandomValue(9103, BackgroundRandomCalls + 4 * (i - 1))),
        ny |-> FromInt(RandomValue(9103, BackgroundRandomCalls + 4 * (i - 1) + 1)),
        ns |-> FromInt(RandomValue(9103, BackgroundRandomCalls + 4 * (i - 1) + 2)),
        nr |-> FromInt(RandomValue(9103, BackgroundRandomCalls + 4 * (i - 1) + 3)) ] ]

\* C6: until the first drawAllCircles the registry is empty and no
\* CircleArt has been constructed; from then on it holds the 12 figures
\* with the seeds, position, scale and routine of their construction, and
\* the constructor has run 12 times.
RegistryBuiltOnce ==
  IF frameCount = 0 \/ (frameCount = 1 /\ pc \in {"advance", "circles"})
    THEN circles = << >> /\ ctorCalls = 0
    ELSE /\ Len(circles) = 12
         /\ ctorCalls = 12
         /\ circles = FirstRegistry

\* two frames and a pointer event later
RegistryAfterTwoFrames ==
  /\ frameCount = 2 /\ pc = "idle" /\ moved
  /\ Len(circles) = 12 /\ ctorCalls = 12

\* C7, as stated: the offsets dx and dy of CircleArt.display are of
\* magnitude at most NOISE.wiggle, at every noiseStrength.
OffsetsWithinWiggle ==
  pc = "drawFn" =>
    /\ FLe(FAbs(loc.dx), NOISE.wiggle)
    /\ FLe(FAbs(loc.dy), NOISE.wiggle)

\* a figure displaced by 100 at noiseStrength 2.0
OffsetDoubled ==
  /\ pc = "drawFn"
  /\ noiseStrength = Two
  /\ loc.px = One
  /\ loc.dx = FromInt(100)

\* C8, as stated: once display has exited, by return or by exception, the
\* transform stack is as deep as when display was entered and the current
\* transform is the one of that moment.
TransformScoped ==
  exited # "none" => Len(stack) = entry.depth /\ cur = entry.cur

\* display left by an exception: the saved transform is still on the stack
\* and the figure's transform is still current
TransformLeaked ==
  /\ exited = "threw"
  /\ Len(stack) = entry.depth + 1
  /\ cur # entry.cur

\* C9: a step of the pointer callback leaves the clock, the registry (so
\* every figure's seeds), the random stream and the transform state as they
\* are; a step of the frame callback leaves noiseStrength and timeScale as
\* they are; no step changes NOISE.
OneWriterPerField ==
  [][ /\ mpc' # mpc => UNCHANGED << t, circles, rng, stack, cur >>
      /\ pc' # pc => UNCHANGED << noiseStrength, timeScale >>
      /\ (noiseStrength' # noiseStrength \/ timeScale' # timeScale) => mpc' # mpc
      /\ t' # t => pc' # pc
      /\ NOISE' = NOISE
    ]_vars

\* both writers have written
BothWritten ==
  /\ pc = "idle" /\ mpc = "idle"
  /\ moved /\ noiseStrength # One /\ timeScale # One
  /\ t # Zero

\* the parameters the last pointer sample gives
SampleStrength == constrain(map(FromInt(mouseX), Zero, width, Half, Two), Half, Two)
SampleTimeScale == constrain(map(FromInt(mouseY), Zero, height, ThreeTenths, Two), ThreeTenths, Two)

\* C10: a callback runs only while the other is at rest; all reads of one
\* frame (the clock advance, the twelve displays, the drawing routines and
\* their noiseWiggle calls) see one pair (noiseStrength, timeScale); and
\* while a frame runs the pair is the initial one or the one of the last
\* pointer sample, both components of the same sample.
FrameReadsCoherent ==
  /\ Cardinality(seen) <= 1
  /\ pc = "idle" \/ mpc = "idle"
  /\ pc # "idle" =>
       IF moved
         THEN noiseStrength = SampleStrength /\ timeScale = SampleTimeScale
         ELSE noiseStrength = One /\ timeScale = One

\* the last figure of the second frame is being drawn, after pointer events
LastFigureOfSecondFrame ==
  /\ pc = "drawFn" /\ idx = 12 /\ frameCount = 2
  /\ moved /\ mouseX = 123
  /\ seen = { << noiseStrength, timeScale >> }

IsWiggle(o) == o.op = "wiggle"

\* the noiseWiggle calls a drawing routine makes when it is given tt
RoutineCalls(name, tt) ==
  [ k \in 1..Len(SelectSeq(Routine(name), IsWiggle)) |->
      [ seed |-> SelectSeq(Routine(name), IsWiggle)[k].seed,
        amp  |-> SelectSeq(Routine(name), IsWiggle)[k].amp,
        time |-> tt ] ]

\* C11: the steps of a frame follow one another in this order: background
\* (clear, reseed, dots) with the clock untouched; then the one advance of
\* the clock; then drawAllCircles, leaving 12 figures and starting at the
\* first; then for figures 1, 2, ..., 12 of the registry in turn, display
\* with the clock as its time value (samples, offsets and transform of that
\* figure) followed by the figure's own routine, every noiseWiggle call of
\* which gets the clock as its time; after the twelfth the frame ends.  The
\* clock changes in the advance only, so all of them get the value after it.
FrameOrder ==
  [][ /\ (pc = "idle" /\ pc' # pc) =>
           /\ pc' = "advance"
           /\ rng' = [seed |-> 9103, n |-> BackgroundRandomCalls]
           /\ t' = t
      /\ (pc = "advance" /\ pc' # pc) =>
           /\ pc' = "circles"
           /\ t' = FAdd(t, FMul(NOISE.speed, timeScale))
      /\ (pc = "circles" /\ pc' # pc) =>
           /\ pc' = "display"
           /\ idx' = 1
           /\ Len(circles') = 12
           /\ \A i \in 1..12 : circles'[i].drawFn = Layout[i][4]
           /\ t' = t
      /\ (pc = "display" /\ pc' # pc) =>
           /\ pc' = "drawFn"
           /\ idx' = idx
           /\ loc' = DisplayLocals(circles[idx], t)
           /\ cur' = cur \o DisplayTransform(circles[idx], loc')
           /\ t' = t /\ circles' = circles
      /\ (pc = "drawFn" /\ pc' # pc) =>
           /\ calls' = RoutineCalls(circles[idx].drawFn, t)
           /\ t' = t /\ circles' = circles
           /\ IF idx < 12
                THEN pc' = "display" /\ idx' = idx + 1
                ELSE pc' = "idle"
    ]_vars

\* the last figure of the frame that built the registry has been displayed
\* and its routine is about to run
TwelfthOfFirstFrame ==
  /\ pc = "drawFn" /\ idx = 12 /\ frameCount = 1
  /\ t # Zero
  /\ loc = DisplayLocals(circles[12], t)
  /\ Len(calls) = Len(RoutineCalls(circles[11].drawFn, t))

\* C12, as stated: for the figure being displayed,
\* NOISE.sMin <= sFactor <= NOISE.sMax * noiseStrength, and the scale
\* applied is the figure's base scale times sFactor.
BreathingWithinRange ==
  pc = "drawFn" =>
    /\ FLe(NOISE.sMin, loc.sFactor)
    /\ FLe(loc.sFactor, FMul(NOISE.sMax, noiseStrength))
    /\ loc.sc = FMul(circles[idx].scale, loc.sFactor)
    /\ cur[Len(cur)] = [op |-> "scale", s |-> loc.sc]

\* at noiseStrength 0.5 the upper end of the mapping, 1.15 * 0.5, lies below
\* its lower end 0.9: a figure whose noise sample is 1 gets a factor below
\* NOISE.sMin
BreathingBelowMin ==
  /\ pc = "drawFn"
  /\ noiseStrength = Half
  /\ loc.ps = One
  /\ FLt(loc.sFactor, NOISE.sMin)
  /\ loc.sc = FMul(circles[idx].scale, loc.sFactor)
====
